---- MODULE Spec2Model ----
(***************************************************************************)
(* The WebSocket chat relay: the ws.on('message') handler of the server    *)
(* (create, join, message, delete-message, delete-room, delete-account),   *)
(* sendRoomList and deleteMediaByMessages, as a state machine.             *)
(*                                                                         *)
(* Every handler is an async task.  A task gives up control at each await  *)
(* (a Firestore read or write, a Cloudinary destroy, the identity          *)
(* service's deleteUser); one action of the model is one await taking      *)
(* effect together with the synchronous code that runs when it resolves,   *)
(* up to the next await.  Tasks in flight interleave freely.               *)
(***************************************************************************)
EXTENDS Naturals, Sequences, FiniteSets, TLC

(***************************************************************************)
(* Values.  Undef is JavaScript's undefined (a field absent from the       *)
(* inbound envelope, or a field absent from a stored document); Null is    *)
(* null.                                                                   *)
(***************************************************************************)
Undef == "undefined"
Null == "null"

Conns == {"c1", "c2"}
RoomNames == {"r1", "r2"}
Uids == {"u1", "u2"}

\* The number of inbound events (handlers started) in one run of each
\* specification.
MaxCreates == 2

\* bcrypt.hash(password, saltRounds): one hash per password, distinct from
\* the password itself.
Hash(p) == IF p = "p1" THEN "h1" ELSE IF p = "p2" THEN "h2" ELSE "h0"

\* A room document that does not exist (roomDoc.exists is false).
NoDoc == [exists |-> FALSE, password |-> Null, createdBy |-> Undef]

\* A profile document that does not exist.
NoUser == [exists |-> FALSE, public_id |-> Undef]

VARIABLES
    rooms,          \* collection 'rooms': room name -> document
    messages,       \* sub-collections 'messages': room name -> set of documents
    users,          \* collection 'users': uid -> profile document
    destroyCalls,   \* the cloudinary.uploader.destroy calls made, in order
    open,           \* the connections whose readyState is OPEN
    outbox,         \* per connection, the envelopes sent to it, in order
    tasks,          \* the handlers started, in order of arrival
    bcasts,         \* the sendRoomList calls started, in order
    now,            \* Date.now() of the server process
    stime,          \* Firestore's server time
    nsent,          \* the number of 'message' events received
    budget          \* inbound events still to come in this run

vars == <<rooms, messages, users, destroyCalls, open, outbox, tasks, bcasts,
          now, stime, nsent, budget>>

store == <<rooms, messages, users>>

----------------------------------------------------------------------------
(* Delivery primitives.                                                    *)

\* ws.send(JSON.stringify(e)) on the handler's own socket: a socket that is
\* no longer OPEN drops the frame.
SendTo(ob, c, e) == IF c \in open THEN [ob EXCEPT ![c] = Append(@, e)] ELSE ob

\* wss.clients.forEach(client => readyState === OPEN && client.send(e))
SendAll(ob, e) == [c \in Conns |-> IF c \in open THEN Append(ob[c], e) ELSE ob[c]]

\* The room list sendRoomList builds from a snapshot of 'rooms'.
RoomList(rs) ==
    { [name |-> n, private |-> rs[n].password # Null, createdBy |-> rs[n].createdBy]
        : n \in {m \in RoomNames : rs[m].exists} }

\* A call of sendRoomList() that is not awaited: it has issued its read.
NewBcast(t) == [pc |-> "read", by |-> t, list |-> {}]

\* A handler task: the fields of its inbound envelope and its locals.
\* roomDoc is the room document a delete-room has read, list
\* holds a snapshot of message documents and idx the position
\* deleteMediaByMessages has reached in it, left the rooms a delete-account
\* still has to process, auth the identity service's answer.  text numbers
\* the 'message' events in the order received; clean records whether every
\* earlier 'message' handler had persisted its record when this one arrived.
Task(a, c, pc, n, u) ==
    [action |-> a, conn |-> c, pc |-> pc, roomName |-> n, uid |-> u,
     password |-> Undef, msgId |-> 0, type |-> Undef, public_id |-> Undef,
     text |-> 0, roomDoc |-> NoDoc, list |-> <<>>, idx |-> 1, left |-> <<>>,
     auth |-> "none", clean |-> TRUE]

SetPc(t, pc) == [tasks EXCEPT ![t].pc = pc]

TaskIds == 1..Len(tasks)

----------------------------------------------------------------------------
(* sendRoomList                                                            *)

\* const snapShot = await db.collection('rooms').get()
BcastRead(b) ==
    /\ bcasts[b].pc = "read"
    /\ bcasts' = [bcasts EXCEPT ![b].pc = "send", ![b].list = RoomList(rooms)]
    /\ UNCHANGED <<store, destroyCalls, open, outbox, tasks, now, stime, nsent, budget>>

\* wss.clients.forEach(...) once the snapshot has arrived
BcastSend(b) ==
    /\ bcasts[b].pc = "send"
    /\ outbox' = SendAll(outbox, [type |-> "rooms-updated", rooms |-> bcasts[b].list])
    /\ bcasts' = [bcasts EXCEPT ![b].pc = "done"]
    /\ UNCHANGED <<store, destroyCalls, open, tasks, now, stime, nsent, budget>>

\* wss.on('connection'): the socket is OPEN and the handler calls
\* sendRoomList() without awaiting it; the call belongs to no task (by 0).
Connect(c) ==
    /\ c \notin open
    /\ open' = open \cup {c}
    /\ bcasts' = Append(bcasts, NewBcast(0))
    /\ UNCHANGED <<store, destroyCalls, outbox, tasks, now, stime, nsent, budget>>

----------------------------------------------------------------------------
(* action === 'create'                                                     *)

\* if (!roomName && !uid) return;  db.collection('rooms').doc(roomName) throws
\* on an undefined name (caught by the handler's outer catch);
\* otherwise roomRef.get() is issued.
CreatePc(n, u) == IF n = Undef THEN "done" ELSE "create-get"

StartCreate(c, n, u, p) ==
    /\ budget > 0
    /\ c \in open
    /\ budget' = budget - 1
    /\ tasks' = Append(tasks, [Task("create", c, CreatePc(n, u), n, u) EXCEPT !.password = p])
    /\ UNCHANGED <<store, destroyCalls, open, outbox, bcasts, now, stime, nsent>>

\* const roomDoc = await roomRef.get(); if (!roomDoc.exists) ... else error
CreateGet(t) ==
    /\ tasks[t].pc = "create-get"
    /\ IF rooms[tasks[t].roomName].exists
         THEN /\ outbox' = SendTo(outbox, tasks[t].conn,
                     [type |-> "error", create |-> TRUE, message |-> "Room already exist !"])
              /\ tasks' = SetPc(t, "done")
         ELSE /\ outbox' = outbox
              /\ tasks' = SetPc(t, "create-set")
    /\ UNCHANGED <<store, destroyCalls, open, bcasts, now, stime, nsent, budget>>

\* password && await bcrypt.hash(password, saltRounds) || null
StoredPassword(p) == IF p = Undef \/ p = "" THEN Null ELSE Hash(p)

\* await roomRef.set({password, createdBy: uid, createdAt}); sendRoomList();
\* ws.send(create-success)
CreateSet(t) ==
    /\ tasks[t].pc = "create-set"
    /\ rooms' = [rooms EXCEPT ![tasks[t].roomName] =
                    [exists |-> TRUE, password |-> StoredPassword(tasks[t].password),
                     createdBy |-> tasks[t].uid]]
    /\ bcasts' = Append(bcasts, NewBcast(t))
    /\ outbox' = SendTo(outbox, tasks[t].conn,
                     [type |-> "create-success", roomName |-> tasks[t].roomName])
    /\ tasks' = SetPc(t, "done")
    /\ UNCHANGED <<messages, users, destroyCalls, open, now, stime, nsent, budget>>

----------------------------------------------------------------------------
(* Message documents.                                                      *)

\* The document messages.doc(id) of a room, as a sequence of length 0 or 1.
DocOf(ms, id) ==
    IF \E m \in ms : m.id = id THEN <<CHOOSE m \in ms : m.id = id>> ELSE <<>>

\* messages.doc(id).set(d): replaces whatever document has that id.
SetDoc(ms, d) == {m \in ms : m.id # d.id} \cup {d}

\* messages.doc(id).delete()
DeleteDoc(ms, id) == {m \in ms : m.id # id}

\* Firestore's order of a query: by the orderBy field, then by document id.
\* Ids are Date.now().toString(), 13 digits, so their string order is the
\* numeric order.
Before(a, b, byTimestamp) ==
    IF byTimestamp /\ a.timestamp # b.timestamp
      THEN a.timestamp < b.timestamp
      ELSE a.id < b.id

RECURSIVE Ordered(_, _)
Ordered(ms, byTimestamp) ==
    IF ms = {} THEN <<>>
    ELSE LET first == CHOOSE a \in ms : \A b \in ms \ {a} : Before(a, b, byTimestamp)
         IN  <<first>> \o Ordered(ms \ {first}, byTimestamp)

\* Mutant: the query without its orderBy, in id order.
OrderById(ms) == Ordered(ms, FALSE)

\* roomRef.collection('messages').orderBy('timestamp').get()
OrderByTimestamp(ms) == Ordered(ms, TRUE)

\* roomRef.collection('messages').get(): snapshot.docs in id order
Docs(ms) == Ordered(ms, FALSE)

----------------------------------------------------------------------------
(* action === 'join'                                                       *)

StartJoin(c, n, p) ==
    /\ budget > 0
    /\ c \in open
    /\ budget' = budget - 1
    /\ tasks' = Append(tasks, [Task("join", c, IF n = Undef THEN "done" ELSE "join-get", n, Undef)
                                  EXCEPT !.password = p])
    /\ UNCHANGED <<store, destroyCalls, open, outbox, bcasts, now, stime, nsent>>

\* bcrypt.compare(password, data.password)
Compare(p, h) == Hash(p) = h

\* const roomDoc = await roomRef.get(); the two error replies; an undefined
\* password makes bcrypt.compare throw, which the outer catch swallows.
JoinGet(t) ==
    LET doc == rooms[tasks[t].roomName]
        p == tasks[t].password
        err(m) == SendTo(outbox, tasks[t].conn, [type |-> "error", join |-> TRUE, message |-> m])
    IN
    /\ tasks[t].pc = "join-get"
    /\ IF ~doc.exists
         THEN outbox' = err("Room doesn't exist.") /\ tasks' = SetPc(t, "done")
       ELSE IF doc.password = Null
         THEN outbox' = outbox /\ tasks' = SetPc(t, "join-list")
       ELSE IF p = Undef
         THEN outbox' = outbox /\ tasks' = SetPc(t, "done")
       ELSE IF ~Compare(p, doc.password)
         THEN outbox' = err("Incorrect password.") /\ tasks' = SetPc(t, "done")
       ELSE outbox' = outbox /\ tasks' = SetPc(t, "join-list")
    /\ UNCHANGED <<store, destroyCalls, open, bcasts, now, stime, nsent, budget>>

\* await messages.orderBy('timestamp').get(); ws.send(join-success)
JoinList(t) ==
    /\ tasks[t].pc = "join-list"
    /\ outbox' = SendTo(outbox, tasks[t].conn,
                    [type |-> "join-success", roomName |-> tasks[t].roomName,
                     messages |-> OrderByTimestamp(messages[tasks[t].roomName])])
    /\ tasks' = SetPc(t, "done")
    /\ UNCHANGED <<store, destroyCalls, open, bcasts, now, stime, nsent, budget>>

----------------------------------------------------------------------------
(* action === 'message'                                                    *)

\* Whether some 'message' handler has not yet persisted its record.
Persisting == \E t \in TaskIds : tasks[t].pc \in {"msg-get", "msg-set"}

StartMessage(c, n, u, ty, pid) ==
    /\ budget > 0
    /\ c \in open
    /\ budget' = budget - 1
    /\ nsent' = nsent + 1
    /\ tasks' = Append(tasks, [Task("message", c, IF n = Undef THEN "done" ELSE "msg-get", n, u)
                                  EXCEPT !.type = ty, !.public_id = pid,
                                         !.text = nsent + 1, !.clean = ~Persisting])
    /\ UNCHANGED <<store, destroyCalls, open, outbox, bcasts, now, stime>>

\* Mutant: the handler without its room-exists check.
MsgGetAnyRoom(t, d) ==
    /\ tasks[t].pc = "msg-get"
    /\ now' = now + d
    /\ tasks' = [tasks EXCEPT ![t].pc = "msg-set", ![t].msgId = now + d]
    /\ UNCHANGED <<store, destroyCalls, open, outbox, bcasts, stime, nsent, budget>>

\* const roomDoc = await roomRef.get(); if (!roomDoc.exists) return;
\* newMsg.id = Date.now().toString(): the clock has advanced by d since its
\* last reading.
MsgGet(t, d) ==
    /\ tasks[t].pc = "msg-get"
    /\ IF ~rooms[tasks[t].roomName].exists
         THEN now' = now /\ tasks' = SetPc(t, "done")
         ELSE /\ now' = now + d
              /\ tasks' = [tasks EXCEPT ![t].pc = "msg-set", ![t].msgId = now + d]
    /\ UNCHANGED <<store, destroyCalls, open, outbox, bcasts, stime, nsent, budget>>

\* type: type || null, public_id: public_id || null
OrNull(v) == IF v = Undef \/ v = "" THEN Null ELSE v

\* The document the handler writes; timestamp is set by the server.
NewMsg(t, ts) ==
    [id |-> tasks[t].msgId, userId |-> tasks[t].uid, type |-> OrNull(tasks[t].type),
     public_id |-> OrNull(tasks[t].public_id), text |-> tasks[t].text, timestamp |-> ts]

\* await messages.doc(newMsg.id).set(newMsg): committed at the server's
\* time, which has advanced by d since the last commit.
MsgSet(t, d) ==
    /\ tasks[t].pc = "msg-set"
    /\ stime' = stime + d
    /\ messages' = [messages EXCEPT ![tasks[t].roomName] = SetDoc(@, NewMsg(t, stime + d))]
    /\ tasks' = SetPc(t, "msg-read")
    /\ UNCHANGED <<rooms, users, destroyCalls, open, outbox, bcasts, now, nsent, budget>>

\* const msg = await messages.doc(newMsg.id).get(); send to every client
MsgRead(t) ==
    /\ tasks[t].pc = "msg-read"
    /\ outbox' = SendAll(outbox, [type |-> "message",
                     message |-> DocOf(messages[tasks[t].roomName], tasks[t].msgId)])
    /\ tasks' = SetPc(t, "done")
    /\ UNCHANGED <<store, destroyCalls, open, bcasts, now, stime, nsent, budget>>

----------------------------------------------------------------------------
(* Media deletion.                                                         *)

\* Mutant: every medium destroyed as an image.
ResourceTypeImage(ty) == "image"

\* const resourceType = type === "audio" ? "video" : "image"
ResourceType(ty) == IF ty = "audio" THEN "video" ELSE "image"

\* One cloudinary.uploader.destroy(public_id, {resource_type}) call by task
\* t, and whether it resolved (ok) or threw.
DestroyCall(t, pid, rt, ok) == [task |-> t, public_id |-> pid, resource_type |-> rt, ok |-> ok]

\* if (message.data()?.public_id): null and undefined are falsy
HasMedia(m) == m.public_id # Null /\ m.public_id # Undef

----------------------------------------------------------------------------
(* action === 'delete-message'                                             *)

StartDeleteMessage(c, n, id, u) ==
    /\ budget > 0
    /\ c \in open
    /\ budget' = budget - 1
    /\ tasks' = Append(tasks, [Task("delete-message", c, IF n = Undef THEN "done" ELSE "dm-get", n, u)
                                  EXCEPT !.msgId = id])
    /\ UNCHANGED <<store, destroyCalls, open, outbox, bcasts, now, stime, nsent>>

\* Mutant: the author check dropped.
IsAuthorAnyone(m, u) == TRUE

\* if (message.data().userId === uid)
IsAuthor(m, u) == m.userId = u

\* const message = await messageRef.get(): data() of a missing document is
\* undefined and reading its userId throws (caught, logged).  A non-author
\* request ends here.
DmGet(t) ==
    LET found == DocOf(messages[tasks[t].roomName], tasks[t].msgId) IN
    /\ tasks[t].pc = "dm-get"
    /\ tasks' = [tasks EXCEPT
                   ![t].list = found,
                   ![t].pc = IF found = <<>> THEN "done"
                             ELSE IF ~IsAuthor(found[1], tasks[t].uid) THEN "done"
                             ELSE IF HasMedia(found[1]) THEN "dm-destroy"
                             ELSE "dm-delete"]
    /\ UNCHANGED <<store, destroyCalls, open, outbox, bcasts, now, stime, nsent, budget>>

\* Where the handler goes after the destroy call: a failure is caught and
\* logged, and the record is deleted all the same.
AfterDestroy(ok) == "dm-delete"

\* await cloudinary.uploader.destroy(message.data().public_id, {resource_type})
DmDestroy(t) ==
    LET m == tasks[t].list[1] IN
    /\ tasks[t].pc = "dm-destroy"
    /\ \E ok \in BOOLEAN :
         /\ destroyCalls' = Append(destroyCalls,
                               DestroyCall(t, m.public_id, ResourceType(m.type), ok))
         /\ tasks' = SetPc(t, AfterDestroy(ok))
    /\ UNCHANGED <<store, open, outbox, bcasts, now, stime, nsent, budget>>

\* Mutant: message-deleted sent the way 'message' is, to every client.
DeletedToAll(t) == open

\* The connections the message-deleted envelope goes to: ws.send, the
\* requesting socket only.
DeletedTo(t) == {tasks[t].conn} \cap open

\* await messageRef.delete(); ws.send({type: 'message-deleted', id: msgId})
DmDelete(t) ==
    /\ tasks[t].pc = "dm-delete"
    /\ messages' = [messages EXCEPT ![tasks[t].roomName] = DeleteDoc(@, tasks[t].msgId)]
    /\ outbox' = [c \in Conns |->
                    IF c \in DeletedTo(t)
                      THEN Append(outbox[c], [type |-> "message-deleted", id |-> tasks[t].msgId])
                      ELSE outbox[c]]
    /\ tasks' = SetPc(t, "done")
    /\ UNCHANGED <<rooms, users, destroyCalls, open, bcasts, now, stime, nsent, budget>>

----------------------------------------------------------------------------
(* deleteMediaByMessages(messageList)                                      *)

\* The position of the first message at or after i that has a public_id
\* (if (!msg.data().public_id) continue), or Len(list) + 1.
RECURSIVE NextMedia(_, _)
NextMedia(list, i) ==
    IF i > Len(list) THEN i
    ELSE IF HasMedia(list[i]) THEN i
    ELSE NextMedia(list, i + 1)

\* Mutant: a failed destroy call ends the loop.
AfterCallStopOnFailure(list, i, ok) == IF ok THEN NextMedia(list, i + 1) ELSE Len(list) + 1

\* Where the loop goes after the destroy call for list[i]: the catch logs a
\* failure and the loop goes on.
AfterCall(list, i, ok) == NextMedia(list, i + 1)

\* The handler's next await once deleteMediaByMessages has returned.
AfterMedia(pc) == IF pc = "dr-media" THEN "dr-batch" ELSE "da-recursive"

\* The task's position after reading a snapshot of messages: in the loop,
\* or past it when no message has media.
EnterMedia(list, pc) == IF NextMedia(list, 1) > Len(list) THEN AfterMedia(pc) ELSE pc

\* await cloudinary.uploader.destroy(msg.data().public_id, {resource_type})
MediaDestroy(t) ==
    LET list == tasks[t].list
        m == list[tasks[t].idx]
    IN
    /\ tasks[t].pc \in {"dr-media", "da-media"}
    /\ \E ok \in BOOLEAN :
         LET j == AfterCall(list, tasks[t].idx, ok) IN
         /\ destroyCalls' = Append(destroyCalls,
                               DestroyCall(t, m.public_id, ResourceType(m.type), ok))
         /\ tasks' = [tasks EXCEPT ![t].idx = j,
                                   ![t].pc = IF j > Len(list) THEN AfterMedia(@) ELSE @]
    /\ UNCHANGED <<store, open, outbox, bcasts, now, stime, nsent, budget>>

----------------------------------------------------------------------------
(* action === 'delete-room'                                                *)

\* doc.data().f: a field the document does not have reads as undefined.
Field(doc, f) == IF f \in DOMAIN doc THEN doc[f] ELSE Undef

PermissionError == [type |-> "error", message |-> "Only the creator can delete this room."]

StartDeleteRoom(c, n, u) ==
    /\ budget > 0
    /\ c \in open
    /\ budget' = budget - 1
    /\ tasks' = Append(tasks, Task("delete-room", c, IF n = Undef THEN "done" ELSE "dr-get", n, u))
    /\ UNCHANGED <<store, destroyCalls, open, outbox, bcasts, now, stime, nsent>>

\* if (roomDoc.data().owner !== uid): the field compared with the uid
MayDelete(doc, u) == Field(doc, "owner") = u

\* const roomDoc = await roomRef.get(); if (!roomDoc.exists) return;
\* the permission check; messagesRef.get() is issued.
DrGet(t) ==
    LET doc == rooms[tasks[t].roomName] IN
    /\ tasks[t].pc = "dr-get"
    /\ IF ~doc.exists
         THEN outbox' = outbox /\ tasks' = [tasks EXCEPT ![t].roomDoc = doc, ![t].pc = "done"]
       ELSE IF ~MayDelete(doc, tasks[t].uid)
         THEN /\ outbox' = SendTo(outbox, tasks[t].conn, PermissionError)
              /\ tasks' = [tasks EXCEPT ![t].roomDoc = doc, ![t].pc = "done"]
       ELSE outbox' = outbox /\ tasks' = [tasks EXCEPT ![t].roomDoc = doc, ![t].pc = "dr-list"]
    /\ UNCHANGED <<store, destroyCalls, open, bcasts, now, stime, nsent, budget>>

\* const messagesSnapshot = await messagesRef.get();
\* deleteMediaByMessages(messagesSnapshot.docs) starts.
DrList(t) ==
    LET list == Docs(messages[tasks[t].roomName]) IN
    /\ tasks[t].pc = "dr-list"
    /\ tasks' = [tasks EXCEPT ![t].list = list, ![t].idx = NextMedia(list, 1),
                              ![t].pc = EnterMedia(list, "dr-media")]
    /\ UNCHANGED <<store, destroyCalls, open, outbox, bcasts, now, stime, nsent, budget>>

\* messagesSnapshot.forEach(doc => batch.delete(doc.ref)); await batch.commit()
DrBatch(t) ==
    LET ids == {tasks[t].list[i].id : i \in 1..Len(tasks[t].list)} IN
    /\ tasks[t].pc = "dr-batch"
    /\ messages' = [messages EXCEPT ![tasks[t].roomName] = {m \in @ : m.id \notin ids}]
    /\ tasks' = SetPc(t, "dr-delete")
    /\ UNCHANGED <<rooms, users, destroyCalls, open, outbox, bcasts, now, stime, nsent, budget>>

\* await roomRef.delete(); sendRoomList()
DrDelete(t) ==
    /\ tasks[t].pc = "dr-delete"
    /\ rooms' = [rooms EXCEPT ![tasks[t].roomName] = NoDoc]
    /\ bcasts' = Append(bcasts, NewBcast(t))
    /\ tasks' = SetPc(t, "done")
    /\ UNCHANGED <<messages, users, destroyCalls, open, outbox, now, stime, nsent, budget>>

----------------------------------------------------------------------------
(* action === 'delete-account'                                             *)

\* if (!uid) return;  admin.auth().deleteUser(uid) is issued.
StartDeleteAccount(c, u) ==
    /\ budget > 0
    /\ c \in open
    /\ budget' = budget - 1
    /\ tasks' = Append(tasks, Task("delete-account", c, IF u = Undef THEN "done" ELSE "da-auth", Undef, u))
    /\ UNCHANGED <<store, destroyCalls, open, outbox, bcasts, now, stime, nsent>>

\* The identity service's answers: the user deleted, err.code ===
\* 'auth/user-not-found', any other error.
AuthResults == {"ok", "not-found", "error"}

\* Mutant: every failure of the identity service rethrown, not-found too.
AuthFatalAlways(r) == r # "ok"

\* catch (err) { if (err.code === 'auth/user-not-found') ... else throw err }
AuthFatal(r) == r = "error"

\* await admin.auth().deleteUser(uid): a fatal answer is rethrown to the
\* outer catch and ends the handler; otherwise users.doc(uid).get() is issued.
DaAuth(t) ==
    /\ tasks[t].pc = "da-auth"
    /\ \E r \in AuthResults :
         tasks' = [tasks EXCEPT ![t].auth = r,
                                ![t].pc = IF AuthFatal(r) THEN "done" ELSE "da-user"]
    /\ UNCHANGED <<store, destroyCalls, open, outbox, bcasts, now, stime, nsent, budget>>

\* const userSnapShot = await users.doc(uid).get(); userSnapShot.data() of a
\* missing profile is undefined and reading its public_id throws (outer
\* catch).  left[1] keeps the avatar's public_id for the destroy call.
DaUser(t) ==
    LET doc == users[tasks[t].uid] IN
    /\ tasks[t].pc = "da-user"
    /\ tasks' = [tasks EXCEPT
                   ![t].left = <<doc.public_id>>,
                   ![t].pc = IF ~doc.exists THEN "done"
                             ELSE IF doc.public_id # Undef /\ doc.public_id # Null THEN "da-avatar"
                             ELSE "da-profile"]
    /\ UNCHANGED <<store, destroyCalls, open, outbox, bcasts, now, stime, nsent, budget>>

\* Where the handler goes after the avatar's destroy call.  The catch block
\* of a failed call reads err.message, and no err is in scope there
\* (catch (error)): a ReferenceError leaves the catch block for the outer
\* catch, which ends the handler.
AfterAvatar(ok) == IF ok THEN "da-profile" ELSE "done"

\* await cloudinary.uploader.destroy(userSnapShot.data().public_id, {resource_type: "image"})
DaAvatar(t) ==
    /\ tasks[t].pc = "da-avatar"
    /\ \E ok \in BOOLEAN :
         /\ destroyCalls' = Append(destroyCalls, DestroyCall(t, tasks[t].left[1], "image", ok))
         /\ tasks' = SetPc(t, AfterAvatar(ok))
    /\ UNCHANGED <<store, open, outbox, bcasts, now, stime, nsent, budget>>

\* await users.doc(uid).delete(); the rooms query is issued.
DaProfile(t) ==
    /\ tasks[t].pc = "da-profile"
    /\ users' = [users EXCEPT ![tasks[t].uid] = NoUser]
    /\ tasks' = SetPc(t, "da-rooms")
    /\ UNCHANGED <<rooms, messages, destroyCalls, open, outbox, bcasts, now, stime, nsent, budget>>

\* roomSnap.docs of rooms.where('createdBy', '==', uid), in id order.
RECURSIVE NamesInOrder(_)
NamesInOrder(ns) ==
    IF ns = {} THEN <<>>
    ELSE LET first == CHOOSE a \in ns : \A b \in ns \ {a} : a = "r1" \/ b # "r1"
         IN  <<first>> \o NamesInOrder(ns \ {first})

RoomsCreatedBy(u) == NamesInOrder({n \in RoomNames : rooms[n].exists /\ rooms[n].createdBy = u})

\* Mutant: the room-list broadcast started without delete-success.
DaFinishBroadcastOnly(t) ==
    /\ outbox' = outbox
    /\ bcasts' = Append(bcasts, NewBcast(t))

\* The end of the room loop: ws.send({type: 'delete-success'}); sendRoomList()
DaFinish(t) ==
    /\ outbox' = SendTo(outbox, tasks[t].conn, [type |-> "delete-success"])
    /\ bcasts' = Append(bcasts, NewBcast(t))

\* const roomSnap = await rooms.where('createdBy', '==', uid).get()
DaRooms(t) ==
    LET found == RoomsCreatedBy(tasks[t].uid) IN
    /\ tasks[t].pc = "da-rooms"
    /\ IF found = <<>>
         THEN /\ DaFinish(t)
              /\ tasks' = [tasks EXCEPT ![t].left = found, ![t].pc = "done"]
         ELSE /\ UNCHANGED <<outbox, bcasts>>
              /\ tasks' = [tasks EXCEPT ![t].left = found, ![t].pc = "da-list"]
    /\ UNCHANGED <<store, destroyCalls, open, now, stime, nsent, budget>>

\* const messagesSnap = await rooms.doc(roomId).collection('messages').get();
\* deleteMediaByMessages(messagesSnap.docs) starts.
DaList(t) ==
    LET list == Docs(messages[tasks[t].left[1]]) IN
    /\ tasks[t].pc = "da-list"
    /\ tasks' = [tasks EXCEPT ![t].list = list, ![t].idx = NextMedia(list, 1),
                              ![t].pc = EnterMedia(list, "da-media")]
    /\ UNCHANGED <<store, destroyCalls, open, outbox, bcasts, now, stime, nsent, budget>>

\* await admin.firestore().recursiveDelete(rooms.doc(roomId)): the room
\* document and its messages; then the next room, or the end of the loop.
DaRecursive(t) ==
    LET n == tasks[t].left[1]
        rest == Tail(tasks[t].left)
    IN
    /\ tasks[t].pc = "da-recursive"
    /\ rooms' = [rooms EXCEPT ![n] = NoDoc]
    /\ messages' = [messages EXCEPT ![n] = {}]
    /\ IF rest = <<>>
         THEN /\ DaFinish(t)
              /\ tasks' = [tasks EXCEPT ![t].left = rest, ![t].pc = "done"]
         ELSE /\ UNCHANGED <<outbox, bcasts>>
              /\ tasks' = [tasks EXCEPT ![t].left = rest, ![t].pc = "da-list"]
    /\ UNCHANGED <<users, destroyCalls, open, now, stime, nsent, budget>>

\* A Firestore call of the handler rejects: the outer try of delete-account
\* catches it (catch (err) { console.error('Total delete failed') }) and the
\* handler ends there, with what it has deleted so far deleted.
DaStorageFail(t) ==
    /\ tasks[t].pc \in {"da-user", "da-profile", "da-rooms", "da-list", "da-recursive"}
    /\ tasks' = SetPc(t, "failed")
    /\ UNCHANGED <<store, destroyCalls, open, outbox, bcasts, now, stime, nsent, budget>>

----------------------------------------------------------------------------
(* Specifications.                                                         *)

EmptyStore ==
    /\ rooms = [n \in RoomNames |-> NoDoc]
    /\ messages = [n \in RoomNames |-> {}]
    /\ users = [u \in Uids |-> NoUser]

\* No handler in flight, every connection open, nothing sent yet.
Idle ==
    /\ destroyCalls = <<>>
    /\ open = Conns
    /\ outbox = [c \in Conns |-> <<>>]
    /\ tasks = <<>>
    /\ bcasts = <<>>

Quiet ==
    /\ Idle
    /\ now = 1
    /\ stime = 1
    /\ nsent = 0

Bcast == \E b \in 1..Len(bcasts) : BcastRead(b) \/ BcastSend(b)

\* Concurrent create handlers on one room name.
InitCreate == EmptyStore /\ Quiet /\ budget = MaxCreates

NextCreate ==
    \/ \E c \in Conns, u \in Uids, p \in {"p1", Undef} :
          StartCreate(c, "r1", u, p)
    \/ \E t \in TaskIds : CreateGet(t)
    \/ \E t \in TaskIds : CreateSet(t)
    \/ Bcast

SpecCreate == InitCreate /\ [][NextCreate]_vars

\* Messages and their deletion in one existing room, r1, created by u1.
MaxMsgEvents == 2

OneRoom ==
    /\ rooms = [n \in RoomNames |->
                  IF n = "r1" THEN [exists |-> TRUE, password |-> Null, createdBy |-> "u1"]
                              ELSE NoDoc]
    /\ messages = [n \in RoomNames |-> {}]
    /\ users = [u \in Uids |-> NoUser]

InitDelMsg == OneRoom /\ Quiet /\ budget = MaxMsgEvents

\* The ids a client can name: those of stored messages, and one that names
\* no message.
KnownIds(n) == {m.id : m \in messages[n]} \cup {0}

NextDelMsg ==
    \/ \E u \in Uids, ty \in {"audio", "image"}, pid \in {"m1", Undef} :
          StartMessage("c1", "r1", u, ty, pid)
    \/ \E t \in TaskIds : MsgGet(t, 1)
    \/ \E t \in TaskIds : MsgSet(t, 1)
    \/ \E t \in TaskIds : MsgRead(t)
    \/ \E c \in Conns, id \in KnownIds("r1"), u \in Uids : StartDeleteMessage(c, "r1", id, u)
    \/ \E t \in TaskIds : DmGet(t)
    \/ \E t \in TaskIds : DmDestroy(t)
    \/ \E t \in TaskIds : DmDelete(t)

SpecDelMsg == InitDelMsg /\ [][NextDelMsg]_vars

\* Rooms through their life: created, written to, deleted by delete-room.
MaxRoomEvents == 3

InitRoom == EmptyStore /\ Quiet /\ budget = MaxRoomEvents

NextRoom ==
    \/ \E u \in Uids : StartCreate("c1", "r1", u, Undef)
    \/ \E t \in TaskIds : CreateGet(t)
    \/ \E t \in TaskIds : CreateSet(t)
    \/ Bcast
    \/ \E pid \in {"m1", Undef} : StartMessage("c1", "r1", "u1", "audio", pid)
    \/ \E t \in TaskIds : MsgGet(t, 1)
    \/ \E t \in TaskIds : MsgSet(t, 1)
    \/ \E t \in TaskIds : MsgRead(t)
    \/ \E c \in Conns, u \in Uids \cup {Undef} : StartDeleteRoom(c, "r1", u)
    \/ \E t \in TaskIds : DrGet(t)
    \/ \E t \in TaskIds : DrList(t)
    \/ \E t \in TaskIds : MediaDestroy(t)
    \/ \E t \in TaskIds : DrBatch(t)
    \/ \E t \in TaskIds : DrDelete(t)

SpecRoom == InitRoom /\ [][NextRoom]_vars

\* Account deletion over a populated store.  The profiles, rooms and
\* messages the run starts from are what earlier profile updates, create
\* and message events leave behind.
MaxAccountEvents == 1

Stored(id, u, ty, pid) ==
    [id |-> id, userId |-> u, type |-> ty, public_id |-> pid, text |-> id, timestamp |-> id]

InitAccount ==
    /\ users \in [Uids -> {NoUser, [exists |-> TRUE, public_id |-> Undef],
                                   [exists |-> TRUE, public_id |-> "a1"]}]
    /\ users["u2"] = NoUser
    /\ rooms \in [RoomNames -> {[exists |-> TRUE, password |-> Null, createdBy |-> u] : u \in Uids}]
    /\ rooms["r1"].createdBy = "u1"
    /\ messages = [n \in RoomNames |->
                     IF n = "r1" THEN {Stored(1, "u1", "image", "m1"), Stored(2, "u2", Null, Null),
                                       Stored(3, "u2", "audio", "m2")}
                                 ELSE {Stored(1, "u2", "audio", "m1")}]
    /\ Idle
    /\ now = 4 /\ stime = 4 /\ nsent = 3
    /\ budget = MaxAccountEvents

NextAccount ==
    \/ \E u \in {"u1", Undef} : StartDeleteAccount("c1", u)
    \/ \E t \in TaskIds : DaAuth(t)
    \/ \E t \in TaskIds : DaUser(t)
    \/ \E t \in TaskIds : DaAvatar(t)
    \/ \E t \in TaskIds : DaProfile(t)
    \/ \E t \in TaskIds : DaRooms(t)
    \/ \E t \in TaskIds : DaList(t)
    \/ \E t \in TaskIds : MediaDestroy(t)
    \/ \E t \in TaskIds : DaRecursive(t)
    \/ Bcast

SpecAccount == InitAccount /\ [][NextAccount]_vars

\* Messages sent to one existing room, and joins of it.
MaxOrderEvents == 3

InitOrder == OneRoom /\ Quiet /\ budget = MaxOrderEvents

NextOrder ==
    \/ StartMessage("c1", "r1", "u1", Undef, Undef)
    \/ \E t \in TaskIds, d \in {0, 1} : MsgGet(t, d)
    \/ \E t \in TaskIds, d \in {0, 1} : MsgSet(t, d)
    \/ \E t \in TaskIds : MsgRead(t)
    \/ StartJoin("c2", "r1", Undef)
    \/ \E t \in TaskIds : JoinGet(t)
    \/ \E t \in TaskIds : JoinList(t)

SpecOrder == InitOrder /\ [][NextOrder]_vars

----------------------------------------------------------------------------
(* C1: once a room has been persisted, no create that completes later      *)
(* changes its createdBy or its password.                                  *)
C1_CreateNeverOverwrites ==
    [][\A n \in RoomNames : rooms[n].exists =>
          /\ rooms'[n].createdBy = rooms[n].createdBy
          /\ rooms'[n].password = rooms[n].password]_vars

----------------------------------------------------------------------------
(* Claims about delete-message, under SpecDelMsg.                          *)

\* The destroy calls task t has made.
CallsBy(t) == {i \in 1..Len(destroyCalls) : destroyCalls[i].task = t}

\* Task t is a delete-message handler that has read the message it names.
ReadMessage(t) == tasks[t].action = "delete-message" /\ tasks[t].list # <<>>

\* Task t takes this step.
Steps(t) == tasks'[t] # tasks[t]

(* C4: a delete-message whose uid differs from the author of the stored    *)
(* message ends at its read: no message record changes, no media-destroy   *)
(* call is made and no envelope is sent to any connection.                 *)
C4_NonAuthorDeleteIsNoOp ==
    [][\A t \in TaskIds :
         LET found == DocOf(messages[tasks[t].roomName], tasks[t].msgId) IN
         (tasks[t].pc = "dm-get" /\ Steps(t) /\ found # <<>> /\ found[1].userId # tasks[t].uid)
           => /\ tasks'[t].pc = "done"
              /\ messages' = messages
              /\ destroyCalls' = destroyCalls
              /\ outbox' = outbox]_vars

C4_Witness ==
    \E t \in TaskIds :
       /\ ReadMessage(t) /\ tasks[t].pc = "done"
       /\ tasks[t].list[1].userId # tasks[t].uid
       /\ HasMedia(tasks[t].list[1])
       /\ tasks[t].list[1] \in messages[tasks[t].roomName]

(* C5: when the author's delete-message has finished, the message is in no *)
(* later join's list, and the handler has made exactly one media-destroy   *)
(* call if the message had a media id (category video for type audio,      *)
(* image otherwise) and none if it had not.                                *)
C5_AuthorDeleteRemoves ==
    \A t \in TaskIds :
       (ReadMessage(t) /\ tasks[t].pc = "done" /\ tasks[t].list[1].userId = tasks[t].uid)
         => LET m == tasks[t].list[1]
                joined == OrderByTimestamp(messages[tasks[t].roomName])
            IN  /\ \A i \in 1..Len(joined) : joined[i].text # m.text
                /\ IF m.public_id # Null
                     THEN /\ Cardinality(CallsBy(t)) = 1
                          /\ \A i \in CallsBy(t) :
                               /\ destroyCalls[i].public_id = m.public_id
                               /\ destroyCalls[i].resource_type =
                                     (IF m.type = "audio" THEN "video" ELSE "image")
                     ELSE CallsBy(t) = {}

C5_Witness ==
    \E t \in TaskIds :
       /\ ReadMessage(t) /\ tasks[t].pc = "done"
       /\ tasks[t].list[1].userId = tasks[t].uid
       /\ tasks[t].list[1].type = "audio"
       /\ \E i \in CallsBy(t) : destroyCalls[i].resource_type = "video"

(* C6: a failing media-destroy call does not keep the author's             *)
(* delete-message from deleting the record; the message-deleted envelope   *)
(* with the message id is sent in the step that completes the deletion,    *)
(* to the requesting connection, and no step of the handler sends anything *)
(* to another connection.                                                  *)
C6_DeleteDespiteMediaFailure ==
    [][\A t \in TaskIds :
         (tasks[t].action = "delete-message" /\ Steps(t))
           => /\ (tasks[t].pc = "dm-destroy" => tasks'[t].pc = "dm-delete")
              /\ (tasks[t].pc = "dm-delete" =>
                    DocOf(messages'[tasks[t].roomName], tasks[t].msgId) = <<>>)
              /\ \A c \in Conns :
                    IF c = tasks[t].conn /\ tasks[t].pc = "dm-delete" /\ c \in open
                      THEN outbox'[c] = Append(outbox[c],
                                [type |-> "message-deleted", id |-> tasks[t].msgId])
                      ELSE outbox'[c] = outbox[c]]_vars

C6_Witness ==
    \E t \in TaskIds :
       /\ ReadMessage(t) /\ tasks[t].pc = "done"
       /\ \E i \in CallsBy(t) : ~destroyCalls[i].ok
       /\ DocOf(messages[tasks[t].roomName], tasks[t].msgId) = <<>>
       /\ \E i \in 1..Len(outbox[tasks[t].conn]) :
             outbox[tasks[t].conn][i] = [type |-> "message-deleted", id |-> tasks[t].msgId]
       /\ \A c \in Conns \ {tasks[t].conn} : \A i \in 1..Len(outbox[c]) :
             outbox[c][i].type # "message-deleted"

----------------------------------------------------------------------------
(* Claims about delete-room, under SpecRoom.                               *)

\* Whether envelope e is among those sent to connection c.
Received(c, e) == \E i \in 1..Len(outbox[c]) : outbox[c][i] = e

(* C2: no step of a delete-room whose uid is not the createdBy of the room  *)
(* it read changes the room record or any message, and the step that ends  *)
(* the handler sends the permission error to the sender.                   *)
C2_NonCreatorDeleteRoomRefused ==
    [][\A t \in TaskIds :
         (/\ tasks[t].action = "delete-room" /\ Steps(t)
          /\ tasks'[t].roomDoc.exists
          /\ tasks'[t].roomDoc.createdBy # tasks[t].uid)
           => /\ rooms' = rooms
              /\ messages' = messages
              /\ tasks'[t].pc = "done" =>
                    outbox'[tasks[t].conn] = Append(outbox[tasks[t].conn], PermissionError)]_vars

(* C3: when a delete-room carrying the uid the room was created with has   *)
(* finished, the room record and its messages are gone, the sender has     *)
(* received no permission error and the handler has started a room-list    *)
(* broadcast.                                                              *)
C3_CreatorDeleteRoomAuthorized ==
    \A t \in TaskIds :
       (/\ tasks[t].action = "delete-room" /\ tasks[t].pc = "done"
        /\ tasks[t].roomDoc.exists
        /\ tasks[t].roomDoc.createdBy = tasks[t].uid)
         => /\ ~rooms[tasks[t].roomName].exists
            /\ messages[tasks[t].roomName] = {}
            /\ ~Received(tasks[t].conn, PermissionError)
            /\ \E b \in 1..Len(bcasts) : bcasts[b].by = t

----------------------------------------------------------------------------
(* Claims about delete-account, under SpecAccount.                         *)

\* Task t is a delete-account handler that has finished after the identity
\* service answered ok or not-found.
AccountDone(t) ==
    /\ tasks[t].action = "delete-account"
    /\ tasks[t].pc = "done"
    /\ tasks[t].auth \in {"ok", "not-found"}

\* The profile of u and every room u created are gone, with their messages.
Cleaned(u) ==
    /\ ~users[u].exists
    /\ \A n \in RoomNames : ~(rooms[n].exists /\ rooms[n].createdBy = u)
    /\ \A n \in RoomNames : ~rooms[n].exists => messages[n] = {}

(* C7: a delete-account whose identity deletion succeeded or reported      *)
(* not-found ends with the profile and every room of the uid deleted with  *)
(* its messages, and, before a room is deleted, with a media-destroy call  *)
(* made for each of its messages that has a media id.                      *)
C7_DeleteAccountCleansUp ==
    \A t \in TaskIds :
       /\ AccountDone(t) => Cleaned(tasks[t].uid)
       /\ (tasks[t].action = "delete-account" /\ tasks[t].pc = "da-recursive")
            => \A i \in 1..Len(tasks[t].list) :
                  HasMedia(tasks[t].list[i])
                    => \E k \in CallsBy(t) : destroyCalls[k].public_id = tasks[t].list[i].public_id

(* C8: the step that receives the identity service's answer continues to   *)
(* the profile read on ok and on not-found alike; on any other failure it  *)
(* ends the handler and changes no profile, room or message, makes no      *)
(* media-destroy call, sends no envelope and starts no room-list broadcast.*)
C8_IdentityFailureAborts ==
    [][\A t \in TaskIds :
         (tasks[t].pc = "da-auth" /\ Steps(t))
           => IF tasks'[t].auth \in {"ok", "not-found"}
                THEN tasks'[t].pc = "da-user"
                ELSE /\ tasks'[t].pc = "done"
                     /\ UNCHANGED <<rooms, messages, users, destroyCalls, outbox, bcasts>>]_vars

C8_Witness ==
    \E t \in TaskIds :
       /\ tasks[t].action = "delete-account"
       /\ tasks[t].auth = "error" /\ tasks[t].pc = "done"
       /\ users[tasks[t].uid].exists
       /\ RoomsCreatedBy(tasks[t].uid) # <<>>
       /\ CallsBy(t) = {}
       /\ \A c \in Conns : outbox[c] = <<>>

(* C9: a delete-account whose avatar media-destroy call failed still       *)
(* deletes the profile and the rooms of the uid with their messages, and   *)
(* sends delete-success to the sender.                                     *)
C9_AvatarFailureNonFatal ==
    \A t \in TaskIds :
       (/\ tasks[t].action = "delete-account" /\ tasks[t].pc = "done"
        /\ \E k \in CallsBy(t) : destroyCalls[k].public_id = "a1" /\ ~destroyCalls[k].ok)
         => /\ Cleaned(tasks[t].uid)
            /\ Received(tasks[t].conn, [type |-> "delete-success"])

----------------------------------------------------------------------------
(* Claims about the order of a join's message list, under SpecOrder.       *)

\* The join-success envelopes sent so far.
Joined == {e \in UNION {{outbox[c][i] : i \in 1..Len(outbox[c])} : c \in Conns} :
              e.type = "join-success"}

\* The handler of the message numbered k in order of arrival.
Sender(k) == CHOOSE t \in TaskIds : tasks[t].action = "message" /\ tasks[t].text = k

(* C10 as claimed: every join's message list is sorted by non-decreasing   *)
(* timestamp and lists the messages in the order in which they were sent.  *)
C10_JoinInSendOrder ==
    \A e \in Joined : \A i, j \in 1..Len(e.messages) :
       i < j => /\ e.messages[i].timestamp <= e.messages[j].timestamp
                /\ e.messages[i].text < e.messages[j].text

(* C10 as amended: every join's message list is sorted by non-decreasing   *)
(* timestamp, and a message whose record was persisted before a later      *)
(* message event arrived precedes that message.                            *)
C10_JoinInCommitOrder ==
    \A e \in Joined : \A i, j \in 1..Len(e.messages) :
       /\ i < j => e.messages[i].timestamp <= e.messages[j].timestamp
       /\ (e.messages[i].text < e.messages[j].text /\ tasks[Sender(e.messages[j].text)].clean)
            => i < j

C10_Witness ==
    \E e \in Joined :
       /\ Len(e.messages) >= 2
       /\ e.messages[1].text < e.messages[2].text
       /\ e.messages[1].timestamp = e.messages[2].timestamp
       /\ tasks[Sender(e.messages[2].text)].clean

----------------------------------------------------------------------------
(* Claims about the records of accepted messages, under SpecOrder.         *)

\* The message handlers that have persisted their message in room n.
Persisted(n) ==
    {t \in TaskIds : /\ tasks[t].action = "message" /\ tasks[t].roomName = n
                     /\ tasks[t].msgId # 0 /\ tasks[t].pc \in {"msg-read", "done"}}

(* C11: every accepted message is persisted as a record of its own: with   *)
(* no deletion, a room holds one record for each message handler that has  *)
(* persisted its message, and a join lists that many messages, also when   *)
(* two messages are handled within the same clock tick.                    *)
C11_EveryMessageKeepsItsRecord ==
    \A n \in RoomNames :
       /\ \A t \in Persisted(n) : \E m \in messages[n] : m.text = tasks[t].text
       /\ Len(OrderByTimestamp(messages[n])) = Cardinality(Persisted(n))

----------------------------------------------------------------------------
(* Messages addressed to rooms that exist and to rooms that do not.        *)
MaxDropEvents == 2

InitDrop == OneRoom /\ Quiet /\ budget = MaxDropEvents

NextDrop ==
    \/ \E c \in Conns, n \in {"r1", "r2", Undef} : StartMessage(c, n, "u1", Undef, Undef)
    \/ \E t \in TaskIds : MsgGet(t, 1)
    \/ \E t \in TaskIds : MsgSet(t, 1)
    \/ \E t \in TaskIds : MsgRead(t)

SpecDrop == InitDrop /\ [][NextDrop]_vars

C13_BroadcastsOwnMessageOnce ==
    [][\A t \in TaskIds :
         (tasks[t].action = "message" /\ Steps(t))
           => IF tasks[t].pc = "msg-read"
                THEN \E m \in messages[tasks[t].roomName] :
                        /\ m.text = tasks[t].text
                        /\ \A c \in Conns :
                              outbox'[c] = IF c \in open
                                             THEN Append(outbox[c], [type |-> "message", message |-> <<m>>])
                                             ELSE outbox[c]
                ELSE outbox' = outbox]_vars

----------------------------------------------------------------------------
(* Joins of a room that has a password hash, r1, and of one that has none. *)
MaxJoins == 2

InitJoin ==
    /\ rooms = [n \in RoomNames |->
                  [exists |-> TRUE, password |-> IF n = "r1" THEN Hash("p1") ELSE Null,
                   createdBy |-> "u1"]]
    /\ messages = [n \in RoomNames |-> {Stored(1, "u1", Null, Null)}]
    /\ users = [u \in Uids |-> NoUser]
    /\ Idle
    /\ now = 2 /\ stime = 2 /\ nsent = 1
    /\ budget = MaxJoins

NextJoin ==
    \/ \E c \in Conns, n \in RoomNames, p \in {"p1", "p2", Undef} : StartJoin(c, n, p)
    \/ \E t \in TaskIds : JoinGet(t)
    \/ \E t \in TaskIds : JoinList(t)

SpecJoin == InitJoin /\ [][NextJoin]_vars

(* C14: for a room that has a password hash, the step of a join that has   *)
(* read the room goes on to the message list only if the supplied password *)
(* verifies against the hash; otherwise it ends the handler with the       *)
(* join-scoped 'Incorrect password.' error sent to the sender, and no      *)
(* message list.                                                           *)
C14_JoinNeedsMatchingPassword ==
    [][\A t \in TaskIds :
         LET doc == rooms[tasks[t].roomName]
             p == tasks[t].password
         IN
         (/\ tasks[t].action = "join" /\ tasks[t].pc = "join-get" /\ Steps(t)
          /\ doc.exists /\ doc.password # Null)
           => IF p # Undef /\ Hash(p) = doc.password
                THEN tasks'[t].pc = "join-list" /\ outbox' = outbox
                ELSE /\ tasks'[t].pc = "done"
                     /\ outbox' = [outbox EXCEPT ![tasks[t].conn] =
                           Append(@, [type |-> "error", join |-> TRUE,
                                      message |-> "Incorrect password."])]]_vars

----------------------------------------------------------------------------
(* Create events with and without their roomName and uid.                  *)
MaxCreateArgs == 2

InitCreateArgs == EmptyStore /\ Quiet /\ budget = MaxCreateArgs

NextCreateArgs ==
    \/ \E c \in Conns, n \in {"r1", Undef}, u \in {"u1", Undef} : StartCreate(c, n, u, Undef)
    \/ \E t \in TaskIds : CreateGet(t)
    \/ \E t \in TaskIds : CreateSet(t)
    \/ Bcast

SpecCreateArgs == InitCreateArgs /\ [][NextCreateArgs]_vars

(* C15: a create whose roomName is missing or whose uid is missing fails   *)
(* silently: no step of its handler writes a room, starts a room-list      *)
(* broadcast or sends an envelope.                                         *)
C15_CreateWithoutNameOrUidIsSilent ==
    [][\A t \in TaskIds :
         (/\ tasks[t].action = "create" /\ Steps(t)
          /\ (tasks[t].roomName = Undef \/ tasks[t].uid = Undef))
           => /\ rooms' = rooms
              /\ bcasts' = bcasts
              /\ outbox' = outbox]_vars

----------------------------------------------------------------------------
(* Account deletion whose storage calls can fail.                          *)
NextAccountFail ==
    \/ NextAccount
    \/ \E t \in TaskIds : DaStorageFail(t)

SpecAccountFail == InitAccount /\ [][NextAccountFail]_vars

(* C16: a step of a delete-account sends an envelope only when it ends the *)
(* room loop, that is when every room found for the uid has been through   *)
(* the media cascade and has been deleted with its messages; the envelope  *)
(* is delete-success, to the sender; a room-list broadcast is started only *)
(* in that step, with delete-success sent; a handler that fails before the *)
(* end of the loop sends nothing.                                          *)
C16_DeleteSuccessAfterAllRooms ==
    [][\A t \in TaskIds :
         (tasks[t].action = "delete-account" /\ Steps(t))
           => LET sent == outbox' # outbox
                  ended == /\ tasks[t].pc \in {"da-rooms", "da-recursive"}
                           /\ tasks'[t].pc = "done"
                           /\ tasks'[t].left = <<>>
              IN  /\ sent =>
                       /\ ended
                       /\ outbox' = [outbox EXCEPT ![tasks[t].conn] =
                                        Append(@, [type |-> "delete-success"])]
                       /\ tasks[t].pc = "da-recursive" => tasks[t].idx > Len(tasks[t].list)
                       /\ \A n \in RoomNames :
                             /\ ~(rooms'[n].exists /\ rooms'[n].createdBy = tasks[t].uid)
                             /\ ~rooms'[n].exists => messages'[n] = {}
                  /\ bcasts' # bcasts =>
                       /\ sent
                       /\ bcasts' = Append(bcasts, NewBcast(t))]_vars

C16_Witness ==
    \E t \in TaskIds :
       /\ tasks[t].action = "delete-account" /\ tasks[t].pc = "done"
       /\ Received(tasks[t].conn, [type |-> "delete-success"])
       /\ \E b \in 1..Len(bcasts) : bcasts[b].by = t
       /\ \E k \in CallsBy(t) : destroyCalls[k].public_id = "m2"
       /\ \A n \in RoomNames : ~rooms[n].exists

----------------------------------------------------------------------------
(* A message for room r1 while the account of its creator is deleted.      *)
MaxOrphanEvents == 2

InitOrphan ==
    /\ rooms = [n \in RoomNames |->
                  IF n = "r1" THEN [exists |-> TRUE, password |-> Null, createdBy |-> "u1"]
                              ELSE NoDoc]
    /\ messages = [n \in RoomNames |->
                     IF n = "r1" THEN {Stored(1, "u2", "audio", "m1")} ELSE {}]
    /\ users = [u \in Uids |->
                  IF u = "u1" THEN [exists |-> TRUE, public_id |-> "a1"] ELSE NoUser]
    /\ Idle
    /\ now = 2 /\ stime = 2 /\ nsent = 1
    /\ budget = MaxOrphanEvents

NextOrphan ==
    \/ StartMessage("c2", "r1", "u2", Undef, Undef)
    \/ \E t \in TaskIds : MsgGet(t, 1)
    \/ \E t \in TaskIds : MsgSet(t, 1)
    \/ \E t \in TaskIds : MsgRead(t)
    \/ StartDeleteAccount("c1", "u1")
    \/ \E t \in TaskIds : DaAuth(t)
    \/ \E t \in TaskIds : DaUser(t)
    \/ \E t \in TaskIds : DaAvatar(t)
    \/ \E t \in TaskIds : DaProfile(t)
    \/ \E t \in TaskIds : DaRooms(t)
    \/ \E t \in TaskIds : DaList(t)
    \/ \E t \in TaskIds : MediaDestroy(t)
    \/ \E t \in TaskIds : DaRecursive(t)
    \/ Bcast

SpecOrphan == InitOrphan /\ [][NextOrphan]_vars

\* No handler is in flight.
AtRest == \A t \in TaskIds : tasks[t].pc \in {"done", "failed"}

(* C17: once the handlers have finished, no message record remains of a    *)
(* room that has been deleted, whatever the interleaving of the deletion    *)
(* with message handlers that had found the room: every stored message     *)
(* belongs to an existing room.                                            *)
C17_NoMessageOutlivesItsRoom ==
    AtRest => \A n \in RoomNames : ~rooms[n].exists => messages[n] = {}

----------------------------------------------------------------------------
(* C18: deleteMediaByMessages never raises: from the snapshot it is given  *)
(* until it returns, the handler that called it is in the loop or at the   *)
(* await that follows the call.  Each step in the loop makes one destroy   *)
(* call, for the next message of the snapshot that has a media id, with    *)
(* category video for type audio and image otherwise; no message with a    *)
(* media id is passed over, whether the call before it failed or not, and  *)
(* no call is made for a message without one.                              *)
C18_MediaCascadeNeverRaises ==
    [][\A t \in TaskIds :
         LET list == tasks'[t].list
             from == tasks[t].idx
             to == tasks'[t].idx
             loop == tasks[t].pc
         IN
         (Steps(t) /\ tasks[t].pc \in {"da-list", "da-media"})
           => /\ tasks'[t].pc \in {"da-media", "da-recursive"}
              /\ tasks'[t].pc = "da-recursive" <=> to = Len(list) + 1
              /\ to <= Len(list) => HasMedia(list[to])
              /\ IF loop = "da-list"
                   THEN /\ list = Docs(messages[tasks[t].left[1]])
                        /\ \A i \in 1..(to - 1) : ~HasMedia(list[i])
                        /\ destroyCalls' = destroyCalls
                   ELSE /\ list = tasks[t].list
                        /\ to > from
                        /\ \A i \in (from + 1)..(to - 1) : ~HasMedia(list[i])
                        /\ \E ok \in BOOLEAN :
                              destroyCalls' = Append(destroyCalls,
                                 [task |-> t, public_id |-> list[from].public_id,
                                  resource_type |-> IF list[from].type = "audio"
                                                      THEN "video" ELSE "image",
                                  ok |-> ok])]_vars

C18_Witness ==
    \E t \in TaskIds : \E i, j \in CallsBy(t) :
       /\ tasks[t].pc = "da-recursive"
       /\ Len(tasks[t].list) = 3
       /\ i < j
       /\ destroyCalls[i].public_id = "m1" /\ ~destroyCalls[i].ok
       /\ destroyCalls[j].public_id = "m2" /\ destroyCalls[j].resource_type = "video"
       /\ Cardinality({k \in CallsBy(t) : destroyCalls[k].public_id # "a1"}) = 2

----------------------------------------------------------------------------
\* The media store no longer has the blob a message record refers to: a
\* destroy call for its media id, in the category of its type, succeeded.
BlobDestroyed(m) ==
    \E i \in 1..Len(destroyCalls) :
       /\ destroyCalls[i].ok
       /\ destroyCalls[i].public_id = m.public_id
       /\ destroyCalls[i].resource_type = (IF m.type = "audio" THEN "video" ELSE "image")

(* C19: in every reachable state, also after a step of a deletion has      *)
(* failed, every stored message record that has a media id refers to a     *)
(* blob that has not been destroyed.                                       *)
C19_NoRecordOfDestroyedMedia ==
    \A n \in RoomNames : \A m \in messages[n] : HasMedia(m) => ~BlobDestroyed(m)

----------------------------------------------------------------------------
(* What connections are told about the rooms: clients connect while the   *)
(* account that created both rooms is deleted, with storage calls that can *)
(* fail.                                                                   *)
MaxListEvents == 1

InitList ==
    /\ rooms = [n \in RoomNames |-> [exists |-> TRUE, password |-> Null, createdBy |-> "u1"]]
    /\ messages = [n \in RoomNames |->
                     IF n = "r1" THEN {Stored(1, "u2", "audio", "m1")} ELSE {}]
    /\ users = [u \in Uids |->
                  IF u = "u1" THEN [exists |-> TRUE, public_id |-> "a1"] ELSE NoUser]
    /\ destroyCalls = <<>>
    /\ open = {}
    /\ outbox = [c \in Conns |-> <<>>]
    /\ tasks = <<>>
    /\ bcasts = <<>>
    /\ now = 2 /\ stime = 2 /\ nsent = 1
    /\ budget = MaxListEvents

NextList ==
    \/ \E c \in Conns : Connect(c)
    \/ Bcast
    \/ \E c \in Conns : StartDeleteAccount(c, "u1")
    \/ \E t \in TaskIds : DaAuth(t)
    \/ \E t \in TaskIds : DaUser(t)
    \/ \E t \in TaskIds : DaAvatar(t)
    \/ \E t \in TaskIds : DaProfile(t)
    \/ \E t \in TaskIds : DaRooms(t)
    \/ \E t \in TaskIds : DaList(t)
    \/ \E t \in TaskIds : MediaDestroy(t)
    \/ \E t \in TaskIds : DaRecursive(t)
    \/ \E t \in TaskIds : DaStorageFail(t)

SpecList == InitList /\ [][NextList]_vars

\* The positions of the rooms-updated envelopes sent to connection c.
ListsTo(c) == {i \in 1..Len(outbox[c]) : outbox[c][i].type = "rooms-updated"}

(* C20: once every handler and every room-list broadcast has finished, the *)
(* last rooms-updated envelope received by every open connection lists     *)
(* exactly the rooms in storage, also when a deletion has failed after     *)
(* removing some rooms.                                                    *)
C20_LastRoomListIsCurrent ==
    (AtRest /\ \A b \in 1..Len(bcasts) : bcasts[b].pc = "done")
      => \A c \in open :
            /\ ListsTo(c) # {}
            /\ \A i \in ListsTo(c) :
                  (\A j \in ListsTo(c) : j <= i) =>
                     outbox[c][i].rooms =
                        {[name |-> n, private |-> rooms[n].password # Null,
                          createdBy |-> rooms[n].createdBy] : n \in {r \in RoomNames : rooms[r].exists}}

====
